---- MODULE Spec2Model ----
(***************************************************************************)
(* The AIConsultation component (src/unnamed/part_003): microphone         *)
(* capture, input staging, the multipart consultation request and the      *)
(* decoding of the response audio.                                         *)
(*                                                                         *)
(* Every handler runs on the UI event loop: the code between two awaits    *)
(* is one atomic step, and React commits the batched state updates before  *)
(* the next event is dispatched.  Handlers are therefore reached through   *)
(* the controls rendered from the current state (onClick / onChange and    *)
(* their disabled attributes), and the asynchronous continuations          *)
(* (getUserMedia settling, MediaRecorder events, the axios reply) are      *)
(* separate steps that interleave freely.                                  *)
(***************************************************************************)
EXTENDS Integers, Sequences, FiniteSets, TLC

VARIABLES
    audioFile,         \* useState(null)   line 5
    imageFile,         \* useState(null)   line 6
    transcription,     \* useState('')     line 7
    imageAnalysis,     \* useState('')     line 8
    responseAudio,     \* useState(null)   line 9: 0 is null, else an object URL
    loading,           \* useState(false)  line 10
    error,             \* useState(null)   line 11
    isRecording,       \* useState(false)  line 12
    mediaRecorderRef,  \* useRef(null)     line 14: 0 is null, else a session
    audioChunksRef,    \* useRef([])       line 15
    sessions,          \* one entry per startRecording call: its stream and recorder
    inflight,          \* consultation requests posted and not yet settled
    requestCount,      \* number of axios.post calls to /full-consultation so far
    objectURLs,        \* blobs registered by URL.createObjectURL (never revoked)
    speechInflight,    \* text-to-speech requests posted and not yet settled
    speechCount,       \* number of axios.post calls to /text-to-speech so far
    audioPlays,        \* number of audio.play() calls of line 110
    consoleErrors      \* number of console.error calls of line 113

vars == <<audioFile, imageFile, transcription, imageAnalysis, responseAudio,
          loading, error, isRecording, mediaRecorderRef, audioChunksRef,
          sessions, inflight, requestCount, objectURLs,
          speechInflight, speechCount, audioPlays, consoleErrors>>

speechVars == <<speechInflight, speechCount, audioPlays, consoleErrors>>

---------------------------------------------------------------------------
(* Bounds of the model *)

\* startRecording calls in a run
MaxSessions == 2
\* axios.post calls to the consultation endpoint in a run
MaxSubmits == 2
\* axios.post calls to the speech-synthesis endpoint in a run
MaxSpeech == 2

---------------------------------------------------------------------------
(* Values *)

Null == "null"
Absent == "undefined"

\* a File / Blob: name, mime type and byte payload; NoFile is the null slot
NoFile == [name |-> Null, type |-> Null, payload |-> <<>>]

AudioUploads == { [name |-> "hello.wav", type |-> "audio/wav", payload |-> <<1, 2>>] }
ImageUploads == { [name |-> "rash.png", type |-> "image/png", payload |-> <<3>>] }

Truthy(s) == s \notin {Null, Absent, ""}

RECURSIVE Flatten(_)
\* new Blob(parts): the parts' bytes, concatenated in order
Flatten(parts) ==
    IF parts = <<>> THEN <<>> ELSE Head(parts) \o Flatten(Tail(parts))

\* the k-th fragment a recorder of session s delivers: k bytes tagged s, k
ChunkData(s, k) == [j \in 1..k |-> 100 * s + 10 * k + j]

\* the fragments C1..Cn of session s, in arrival order
Delivered(s, n) == [k \in 1..n |-> ChunkData(s, k)]

\* how many fragments a recorder may deliver before its stop event
ChunkCounts == {0, 1, 2}

---------------------------------------------------------------------------
(* atob: the forgiving base64 decode.  A text is a sequence of character   *)
(* codes: 0..63 for the alphabet's sextets, Pad for '=', BadChar for a     *)
(* character outside the alphabet.                                         *)

Pad == 64
BadChar == -1

StripPadding(text) ==
    LET n == Len(text) IN
    IF n % 4 = 0 /\ n >= 2 /\ text[n] = Pad /\ text[n - 1] = Pad
        THEN SubSeq(text, 1, n - 2)
    ELSE IF n % 4 = 0 /\ n >= 1 /\ text[n] = Pad
        THEN SubSeq(text, 1, n - 1)
    ELSE text

\* atob throws InvalidCharacterError on these
atobThrows(text) ==
    LET t == StripPadding(text) IN
    \/ Len(t) % 4 = 1
    \/ \E i \in 1..Len(t) : t[i] \notin 0..63

RECURSIVE DecodeSextets(_)
DecodeSextets(t) ==
    IF Len(t) >= 4 THEN
        LET n == t[1] * 262144 + t[2] * 4096 + t[3] * 64 + t[4] IN
        <<n \div 65536, (n \div 256) % 256, n % 256>>
            \o DecodeSextets(SubSeq(t, 5, Len(t)))
    ELSE IF Len(t) = 3 THEN
        LET n == t[1] * 4096 + t[2] * 64 + t[3] IN
        <<n \div 1024, (n \div 4) % 256>>
    ELSE IF Len(t) = 2 THEN
        <<(t[1] * 64 + t[2]) \div 16>>
    ELSE <<>>

\* Uint8Array.from(atob(text), c => c.charCodeAt(0)), for a text atob accepts
atob(text) == DecodeSextets(StripPadding(text))

---------------------------------------------------------------------------
(* The environment's answers *)

\* response_audio of a reply: absent, or a base64 text
NoAudio == [present |-> FALSE, text |-> <<>>]
ValidAudio == [present |-> TRUE, text |-> <<18, 6, 36, Pad>>]      \* "SGk="
CorruptAudio == [present |-> TRUE, text |-> <<18, BadChar, 36, Pad>>]

AudioTruthy(a) == a.present /\ a.text # <<>>

\* what awaiting axios.post settles with: a 2xx response carrying data, a
\* non-2xx response carrying data.error (or none), or no response at all
Replies ==
    { [kind |-> "ok", transcription |-> x[1], analysis |-> x[2],
       response_audio |-> x[3], serverError |-> Absent, message |-> "ok"] :
        x \in { <<"I have a headache", Absent, NoAudio>>,
                <<Absent, "Possible contact dermatitis", ValidAudio>>,
                <<"I have a headache", "Possible contact dermatitis", CorruptAudio>> } }
    \cup
    { [kind |-> "service", transcription |-> Absent, analysis |-> Absent,
       response_audio |-> NoAudio, serverError |-> e,
       message |-> "Request failed with status code 500"] :
        e \in {"model unavailable", Absent} }
    \cup
    { [kind |-> "transport", transcription |-> Absent, analysis |-> Absent,
       response_audio |-> NoAudio, serverError |-> Absent,
       message |-> "Network Error"] }

MissingInputMessage ==
    "Please provide either an audio recording or an image for consultation."
FallbackMessage == "Failed to process consultation"
MicrophoneDenied == "Permission denied"

---------------------------------------------------------------------------
(* Initial state: the component as mounted *)

Init ==
    /\ audioFile = NoFile
    /\ imageFile = NoFile
    /\ transcription = ""
    /\ imageAnalysis = ""
    /\ responseAudio = 0
    /\ loading = FALSE
    /\ error = Null
    /\ isRecording = FALSE
    /\ mediaRecorderRef = 0
    /\ audioChunksRef = <<>>
    /\ sessions = <<>>
    /\ inflight = {}
    /\ requestCount = 0
    /\ objectURLs = <<>>
    /\ speechInflight = {}
    /\ speechCount = 0
    /\ audioPlays = 0
    /\ consoleErrors = 0

Session == 1..Len(sessions)

\* the streams getUserMedia handed out whose tracks have not been stopped
LiveStreams == {s \in Session : sessions[s].stream = "live"}

---------------------------------------------------------------------------
(* MediaCapture: startRecording, stopRecording and the recorder's events *)

\* startRecording up to its await (line 20): getUserMedia is asked for a stream
startRecording ==
    /\ Len(sessions) < MaxSessions
    /\ sessions' = Append(sessions,
            [state |-> "requesting", stream |-> "none", releases |-> 0])
    /\ UNCHANGED <<speechVars, audioFile, imageFile, transcription, imageAnalysis,
                   responseAudio, loading, error, isRecording, mediaRecorderRef,
                   audioChunksRef, inflight, requestCount, objectURLs>>

\* getUserMedia resolves: lines 21-36 run for the call that opened session s
PermissionGranted(s) ==
    /\ sessions[s].state = "requesting"
    /\ sessions' = [sessions EXCEPT ![s].state = "recording", ![s].stream = "live"]
    /\ mediaRecorderRef' = s
    /\ audioChunksRef' = <<>>
    /\ isRecording' = TRUE
    /\ UNCHANGED <<speechVars, audioFile, imageFile, transcription, imageAnalysis,
                   responseAudio, loading, error, inflight, requestCount,
                   objectURLs>>

\* lines 21-22 moved in front of the await: the recorder slot and the chunk
\* buffer are taken before the permission is known
PermissionDenied_keepsSession(s) ==
    /\ sessions[s].state = "requesting"
    /\ sessions' = [sessions EXCEPT ![s].state = "denied"]
    /\ error' = "Error accessing microphone: " \o MicrophoneDenied
    /\ mediaRecorderRef' = s
    /\ audioChunksRef' = <<>>
    /\ UNCHANGED <<speechVars, audioFile, imageFile, transcription, imageAnalysis,
                   responseAudio, loading, isRecording, inflight, requestCount,
                   objectURLs>>

\* getUserMedia rejects: the catch of lines 37-39
PermissionDenied(s) ==
    /\ sessions[s].state = "requesting"
    /\ sessions' = [sessions EXCEPT ![s].state = "denied"]
    /\ error' = "Error accessing microphone: " \o MicrophoneDenied
    /\ UNCHANGED <<speechVars, audioFile, imageFile, transcription, imageAnalysis,
                   responseAudio, loading, isRecording, mediaRecorderRef,
                   audioChunksRef, inflight, requestCount, objectURLs>>

\* ondataavailable (lines 24-26): the fragment goes to whatever array
\* audioChunksRef holds at that moment
ondataavailable(chunks, data) == Append(chunks, data)

RECURSIVE DeliverAll(_, _)
\* ondataavailable called for each fragment in turn
DeliverAll(chunks, fragments) ==
    IF fragments = <<>> THEN chunks
    ELSE DeliverAll(ondataavailable(chunks, Head(fragments)), Tail(fragments))

\* the File of lines 29-30
RecordedFile(chunks) ==
    [name |-> "recording.wav", type |-> "audio/wav", payload |-> Flatten(chunks)]

\* onstop (lines 28-33): the clip staged from the chunks, or NoFile when
\* new Blob / new File throws (built = FALSE) and the handler ends there
onstop(chunks, built) == IF built THEN RecordedFile(chunks) ELSE NoFile

\* the stream's tracks are stopped on line 32, which a throw on lines 29-30
\* never reaches
onstopReleases(built) == built

\* The task MediaRecorder.stop() queues for the recorder of session s.  The
\* recorder was started without a timeslice (line 35), so it gathers data
\* until stop() and this task fires dataavailable (n fragments) and then stop.
RecorderStopTask(s, n, built) ==
    /\ sessions[s].state = "stopping"
    /\ audioChunksRef' = DeliverAll(audioChunksRef, Delivered(s, n))
    /\ audioFile' = IF onstop(audioChunksRef', built) # NoFile
                        THEN onstop(audioChunksRef', built) ELSE audioFile
    /\ sessions' = [sessions EXCEPT
            ![s].state = "inactive",
            ![s].stream = IF onstopReleases(built) THEN "released" ELSE @,
            ![s].releases = IF onstopReleases(built) THEN @ + 1 ELSE @]
    /\ UNCHANGED <<speechVars, imageFile, transcription, imageAnalysis, responseAudio,
                   loading, error, isRecording, mediaRecorderRef,
                   inflight, requestCount, objectURLs>>

\* line 44 with stop() taking effect whatever the recorder's state is: an
\* inactive recorder fires its stop event again
stopRecording_restops ==
    IF mediaRecorderRef # 0
        THEN /\ sessions' = [sessions EXCEPT ![mediaRecorderRef].state = "stopping"]
             /\ isRecording' = FALSE
             /\ UNCHANGED <<speechVars, audioFile, imageFile, transcription, imageAnalysis,
                            responseAudio, loading, error, mediaRecorderRef,
                            audioChunksRef, inflight, requestCount, objectURLs>>
        ELSE UNCHANGED vars

\* stopRecording (lines 42-47).  MediaRecorder.stop() on a recorder that is
\* not recording returns without effect.
stopRecording ==
    IF mediaRecorderRef # 0
        THEN /\ sessions' = [sessions EXCEPT ![mediaRecorderRef].state =
                                IF @ = "recording" THEN "stopping" ELSE @]
             /\ isRecording' = FALSE
             /\ UNCHANGED <<speechVars, audioFile, imageFile, transcription, imageAnalysis,
                            responseAudio, loading, error, mediaRecorderRef,
                            audioChunksRef, inflight, requestCount, objectURLs>>
        ELSE UNCHANGED vars

\* the record button (lines 141-147)
RecordButtonEnabled == ~loading

RecordButtonClick ==
    /\ RecordButtonEnabled
    /\ IF isRecording THEN stopRecording ELSE startRecording

---------------------------------------------------------------------------
(* InputStaging: the two file inputs *)

\* handleAudioUpload (lines 56-61); file = NoFile: the dialog was cancelled
handleAudioUpload(file) ==
    /\ audioFile' = IF file # NoFile THEN file ELSE audioFile
    /\ UNCHANGED <<speechVars, imageFile, transcription, imageAnalysis, responseAudio,
                   loading, error, isRecording, mediaRecorderRef, audioChunksRef,
                   sessions, inflight, requestCount, objectURLs>>

\* handleImageUpload (lines 49-54)
handleImageUpload(file) ==
    /\ imageFile' = IF file # NoFile THEN file ELSE imageFile
    /\ UNCHANGED <<speechVars, audioFile, transcription, imageAnalysis, responseAudio,
                   loading, error, isRecording, mediaRecorderRef, audioChunksRef,
                   sessions, inflight, requestCount, objectURLs>>

\* the two <input type="file"> (lines 153-159, 177-183)
FileInputEnabled == ~loading

AudioInputChange(file) == FileInputEnabled /\ handleAudioUpload(file)

ImageInputChange(file) == FileInputEnabled /\ handleImageUpload(file)

---------------------------------------------------------------------------
(* ConsultationTransport and ConsultationController: handleFullConsultation *)

\* line 64 without its check
canSubmit_always == TRUE

\* the guard of line 64, negated
canSubmit == audioFile # NoFile \/ imageFile # NoFile

\* lines 74-75 with the second append made an else branch
FormDataOf_elseImage(audio, image) ==
    IF audio # NoFile THEN <<[name |-> "audio", value |-> audio]>>
    ELSE IF image # NoFile THEN <<[name |-> "image", value |-> image]>>
    ELSE <<>>

\* the FormData of lines 73-75: the appended entries, in order
FormDataOf(audio, image) ==
    (IF audio # NoFile THEN <<[name |-> "audio", value |-> audio]>> ELSE <<>>)
    \o (IF image # NoFile THEN <<[name |-> "image", value |-> image]>> ELSE <<>>)

\* handleFullConsultation up to its await (lines 63-81)
handleFullConsultation ==
    IF ~canSubmit
        THEN /\ error' = MissingInputMessage
             /\ UNCHANGED <<speechVars, audioFile, imageFile, transcription, imageAnalysis,
                            responseAudio, loading, isRecording, mediaRecorderRef,
                            audioChunksRef, sessions, inflight, requestCount,
                            objectURLs>>
        ELSE /\ requestCount < MaxSubmits
             /\ loading' = TRUE
             /\ error' = Null
             /\ requestCount' = requestCount + 1
             /\ inflight' = inflight \cup
                    {[id |-> requestCount + 1,
                      formData |-> FormDataOf(audioFile, imageFile)]}
             /\ UNCHANGED <<speechVars, audioFile, imageFile, transcription, imageAnalysis,
                            responseAudio, isRecording, mediaRecorderRef,
                            audioChunksRef, sessions, objectURLs>>

\* line 202 without the loading check
ConsultButtonEnabled_notLoadingAware == ~(audioFile = NoFile /\ imageFile = NoFile)

\* the consult button (lines 200-206)
ConsultButtonEnabled == ~(loading \/ (audioFile = NoFile /\ imageFile = NoFile))

ConsultButtonClick == ConsultButtonEnabled /\ handleFullConsultation

\* line 93 showing the fixed text whatever the response says
consultationError_alwaysFallback(err) == FallbackMessage

\* what the catch of line 93 shows for a caught err
consultationError(err) ==
    IF Truthy(err.serverError) THEN err.serverError ELSE FallbackMessage

\* the exception atob throws inside the try (line 88): it has no response
DecodeException ==
    [kind |-> "decode", serverError |-> Absent, message |-> "InvalidCharacterError"]

\* does the continuation for this settlement end in the catch?
EndsInCatch(rep) ==
    \/ rep.kind # "ok"
    \/ AudioTruthy(rep.response_audio) /\ atobThrows(rep.response_audio.text)

\* the Blob of line 88
DecodedAudio(text) == [name |-> Null, type |-> "audio/mpeg", payload |-> atob(text)]

\* setLoading(false) as the last statement of the try instead of a finally
loadingAfter_noFinally(rep) == EndsInCatch(rep) /\ loading

\* the loading flag the continuation leaves: the finally of lines 94-96
loadingAfter(rep) == FALSE

\* handleFullConsultation after its await (lines 83-96), for request r
\* settling with rep
ConsultationSettles(r, rep) ==
    /\ r \in inflight
    /\ inflight' = inflight \ {r}
    /\ loading' = loadingAfter(rep)
    /\ IF rep.kind = "ok"
        THEN /\ transcription' = rep.transcription
             /\ imageAnalysis' = rep.analysis
             /\ IF ~AudioTruthy(rep.response_audio)
                    THEN UNCHANGED <<responseAudio, objectURLs, error>>
                ELSE IF atobThrows(rep.response_audio.text)
                    THEN /\ error' = consultationError(DecodeException)
                         /\ UNCHANGED <<responseAudio, objectURLs>>
                ELSE /\ objectURLs' =
                            Append(objectURLs, DecodedAudio(rep.response_audio.text))
                     /\ responseAudio' = Len(objectURLs) + 1
                     /\ UNCHANGED error
        ELSE /\ error' = consultationError(rep)
             /\ UNCHANGED <<transcription, imageAnalysis, responseAudio, objectURLs>>
    /\ UNCHANGED <<speechVars, audioFile, imageFile, isRecording, mediaRecorderRef,
                   audioChunksRef, sessions, requestCount>>

\* what the results block renders (lines 209-241)
ResultsShown == Truthy(transcription) \/ Truthy(imageAnalysis)

PlaybackControlShown == ResultsShown /\ responseAudio # 0

---------------------------------------------------------------------------
(* Speech synthesis: handleTextToSpeech *)

\* what awaiting the text-to-speech post settles with
SpeechReplies ==
    { [kind |-> "ok", audio |-> a] : a \in {NoAudio, ValidAudio, CorruptAudio} }
    \cup { [kind |-> k, audio |-> NoAudio] : k \in {"service", "transport"} }

\* does the continuation for this settlement end in the catch of line 112?
SpeechEndsInCatch(rep) ==
    \/ rep.kind # "ok"
    \/ AudioTruthy(rep.audio) /\ atobThrows(rep.audio.text)

\* handleTextToSpeech up to its await (lines 99-104)
handleTextToSpeech(text) ==
    /\ speechCount < MaxSpeech
    /\ speechCount' = speechCount + 1
    /\ speechInflight' = speechInflight \cup
            {[id |-> speechCount + 1, text |-> text, language |-> "en"]}
    /\ UNCHANGED <<audioFile, imageFile, transcription, imageAnalysis,
                   responseAudio, loading, error, isRecording, mediaRecorderRef,
                   audioChunksRef, sessions, inflight, requestCount, objectURLs,
                   audioPlays, consoleErrors>>

\* the two Play buttons of the results block (lines 211-229)
SpeechButtonClick(text) ==
    /\ ResultsShown
    /\ Truthy(text)
    /\ text \in {transcription, imageAnalysis}
    /\ handleTextToSpeech(text)

\* a catch that reports the failure the way handleFullConsultation does
errorAfterSpeechCatch_shown == "Text-to-speech error"

\* the error state the catch of lines 112-114 leaves: it only logs
errorAfterSpeechCatch == error

\* handleTextToSpeech after its await (lines 106-114), for request q
\* settling with rep
SpeechSettles(q, rep) ==
    /\ q \in speechInflight
    /\ speechInflight' = speechInflight \ {q}
    /\ IF SpeechEndsInCatch(rep)
        THEN /\ consoleErrors' = consoleErrors + 1
             /\ error' = errorAfterSpeechCatch
             /\ UNCHANGED <<objectURLs, audioPlays>>
       ELSE IF AudioTruthy(rep.audio)
        THEN /\ objectURLs' = Append(objectURLs, DecodedAudio(rep.audio.text))
             /\ audioPlays' = audioPlays + 1
             /\ UNCHANGED <<consoleErrors, error>>
       ELSE UNCHANGED <<objectURLs, audioPlays, consoleErrors, error>>
    /\ UNCHANGED <<audioFile, imageFile, transcription, imageAnalysis,
                   responseAudio, loading, isRecording, mediaRecorderRef,
                   audioChunksRef, sessions, inflight, requestCount, speechCount>>

---------------------------------------------------------------------------
(* The component driven through its rendered controls *)

Next ==
    \/ RecordButtonClick
    \/ \E s \in Session : PermissionGranted(s)
    \/ \E s \in Session : PermissionDenied(s)
    \/ \E s \in Session : \E n \in ChunkCounts : \E built \in BOOLEAN :
            RecorderStopTask(s, n, built)
    \/ \E file \in AudioUploads \cup {NoFile} : AudioInputChange(file)
    \/ \E file \in ImageUploads \cup {NoFile} : ImageInputChange(file)
    \/ ConsultButtonClick
    \/ \E r \in inflight : \E rep \in Replies : ConsultationSettles(r, rep)

Spec == Init /\ [][Next]_vars

(* The staging and consultation handlers called as functions, without the  *)
(* disabled attributes of the rendered controls in front of them: the       *)
(* handlers' own guards (lines 51, 58, 64) are all that applies.            *)

NextDirect ==
    \/ \E file \in AudioUploads \cup {NoFile} : handleAudioUpload(file)
    \/ \E file \in ImageUploads \cup {NoFile} : handleImageUpload(file)
    \/ handleFullConsultation
    \/ \E r \in inflight : \E rep \in Replies : ConsultationSettles(r, rep)

SpecDirect == Init /\ [][NextDirect]_vars

(* Staging, consultation and speech synthesis driven through the rendered   *)
(* controls, with no recording going on.                                    *)

NextConsult ==
    \/ \E file \in AudioUploads \cup {NoFile} : AudioInputChange(file)
    \/ \E file \in ImageUploads \cup {NoFile} : ImageInputChange(file)
    \/ ConsultButtonClick
    \/ \E r \in inflight : \E rep \in Replies : ConsultationSettles(r, rep)
    \/ \E text \in {transcription, imageAnalysis} : SpeechButtonClick(text)
    \/ \E q \in speechInflight : \E rep \in SpeechReplies : SpeechSettles(q, rep)

SpecConsult == Init /\ [][NextConsult]_vars

\* the endpoint call eventually settles
SpecConsultFair ==
    /\ SpecConsult
    /\ WF_vars(\E r \in inflight : \E rep \in Replies : ConsultationSettles(r, rep))

(* startRecording and stopRecording called as functions, whatever the       *)
(* record button shows, with the recorder's and getUserMedia's callbacks.   *)

NextCapture ==
    \/ startRecording
    \/ stopRecording
    \/ \E s \in Session : PermissionGranted(s)
    \/ \E s \in Session : PermissionDenied(s)
    \/ \E s \in Session : \E n \in ChunkCounts : \E built \in BOOLEAN :
            RecorderStopTask(s, n, built)

SpecCapture == Init /\ [][NextCapture]_vars

---------------------------------------------------------------------------
(* Properties *)

\* C1: once the stop task of a session's recorder has run, the session's
\* microphone stream has been released, exactly once, whether or not the
\* clip could be built from the accumulated chunks.
StreamReleasedOncePerSession ==
    \A s \in Session :
        sessions[s].state = "inactive" =>
            sessions[s].stream = "released" /\ sessions[s].releases = 1

\* C2: at most one microphone stream is acquired and not yet released, in
\* every reachable state.
AtMostOneLiveStream == Cardinality(LiveStreams) <= 1

\* C3: the clip staged when the recorder of session s stops after delivering
\* the fragments C1..Cn has the payload C1 \o ... \o Cn (empty when n = 0).
ClipIsConcatenationOfSessionChunks ==
    [][\A s \in Session : \A n \in ChunkCounts :
          RecorderStopTask(s, n, TRUE) =>
              audioFile'.payload = Flatten(Delivered(s, n))]_vars

\* helpers of the properties: the parts of a multipart body
PartNames(fd) == {fd[i].name : i \in DOMAIN fd}

Part(fd, name) ==
    IF \E i \in DOMAIN fd : fd[i].name = name
        THEN (CHOOSE e \in {fd[i] : i \in DOMAIN fd} : e.name = name).value
        ELSE NoFile

BothSlotsEmpty == audioFile = NoFile /\ imageFile = NoFile

\* C4: handleFullConsultation goes on to the network iff a slot is non-empty;
\* called with both slots empty it sets the missing-input message and posts
\* nothing; no request without parts is ever in flight.
SubmitNeedsStagedInput ==
    /\ [](\A r \in inflight : r.formData # <<>>)
    /\ [](ConsultButtonEnabled => ~BothSlotsEmpty)
    /\ [][handleFullConsultation =>
            IF BothSlotsEmpty
                THEN /\ error' = MissingInputMessage
                     /\ requestCount' = requestCount
                     /\ inflight' = inflight
                     /\ loading' = loading
                ELSE /\ requestCount' = requestCount + 1
                     /\ Cardinality(inflight') = Cardinality(inflight) + 1]_vars

MissingInputReported ==
    /\ BothSlotsEmpty
    /\ error = MissingInputMessage
    /\ requestCount = 0
    /\ inflight = {}

\* C5: at most one consultation request is outstanding; while one is, the
\* consult button is disabled, so no further submit is issued.
AtMostOneOutstandingRequest ==
    /\ Cardinality(inflight) <= 1
    /\ (inflight # {} => ~ConsultButtonEnabled)

SecondSubmitOutstanding ==
    /\ Cardinality(inflight) = 1
    /\ requestCount = 2
    /\ ~BothSlotsEmpty

\* C6: a submit that fails leaves an error message, loading false, and the
\* staging slots holding exactly what they held when the submit was called
\* (the parts of its request).
FailedSubmitKeepsInputsOfSubmitTime ==
    [][\A r \in inflight : \A rep \in Replies :
          (EndsInCatch(rep) /\ ConsultationSettles(r, rep)) =>
              /\ Truthy(error')
              /\ loading' = FALSE
              /\ audioFile' = Part(r.formData, "audio")
              /\ imageFile' = Part(r.formData, "image")]_vars

AtMostOnePlaybackResource == Len(objectURLs) <= 1

\* C9: when a submit succeeds with a reply without response_audio, no
\* response audio is held for display and no playback control is rendered.
NoAudioReplyShowsNoPlayback ==
    [][\A r \in inflight : \A rep \in Replies :
          (rep.kind = "ok" /\ ~rep.response_audio.present
                /\ ConsultationSettles(r, rep)) =>
              responseAudio' = 0]_vars

\* C10: the request a submit issues is one multipart body with the part
\* audio iff an audio clip is staged and the part image iff an image is
\* staged, each carrying the staged file.
RequestCarriesStagedParts ==
    [][requestCount' # requestCount =>
          /\ Cardinality(inflight' \ inflight) = 1
          /\ \A r \in inflight' \ inflight :
                /\ PartNames(r.formData) \subseteq {"audio", "image"}
                /\ Len(r.formData) = Cardinality(PartNames(r.formData))
                /\ "audio" \in PartNames(r.formData) <=> audioFile # NoFile
                /\ "image" \in PartNames(r.formData) <=> imageFile # NoFile
                /\ Part(r.formData, "audio") = audioFile
                /\ Part(r.formData, "image") = imageFile]_vars

RequestWithBothParts ==
    \E r \in inflight : PartNames(r.formData) = {"audio", "image"}

\* C11: when the reply's response_audio cannot be decoded, the submit ends
\* with an error and no playback resource exists afterwards: none is created
\* for that reply and none of an earlier reply is still held.
CorruptAudioLeavesNoPlaybackResource ==
    [][\A r \in inflight : \A rep \in Replies :
          (rep.kind = "ok" /\ AudioTruthy(rep.response_audio)
                /\ atobThrows(rep.response_audio.text)
                /\ ConsultationSettles(r, rep)) =>
              /\ Truthy(error')
              /\ objectURLs' = objectURLs
              /\ responseAudio' = 0]_vars

\* C13: when getUserMedia rejects, startRecording sets the microphone error
\* and nothing else: the recording flag, the recorder slot, the chunk buffer,
\* the staged clip and the set of live streams are as before, the failed
\* call holds no stream, and the record button still starts a recording
\* when no submit is outstanding.
DeniedPermissionRetainsNothing ==
    [][\A s \in Session :
          PermissionDenied(s) =>
              /\ error' = "Error accessing microphone: " \o MicrophoneDenied
              /\ isRecording' = isRecording
              /\ mediaRecorderRef' = mediaRecorderRef
              /\ mediaRecorderRef' # s
              /\ audioChunksRef' = audioChunksRef
              /\ audioFile' = audioFile
              /\ sessions'[s].stream = "none"
              /\ LiveStreams' = LiveStreams
              /\ (~loading' => RecordButtonEnabled')]_vars

RecordingAfterDenial ==
    /\ Len(sessions) = 2
    /\ sessions[1].state = "denied"
    /\ sessions[2].state = "recording"
    /\ mediaRecorderRef = 2

\* C17: a submit that ends in failure leaves the displayed transcription,
\* analysis and response audio as they were before it.
FailedSubmitLeavesDisplayedResult ==
    [][\A r \in inflight : \A rep \in Replies :
          (EndsInCatch(rep) /\ ConsultationSettles(r, rep)) =>
              /\ transcription' = transcription
              /\ imageAnalysis' = imageAnalysis
              /\ responseAudio' = responseAudio]_vars

\* C14: from every state the component can take a step (reset) after which
\* both staging slots are empty, no response audio or playback resource is
\* held and no submit is outstanding.
ResetLeadsToIdle ==
    ENABLED (/\ Next
             /\ audioFile' = NoFile
             /\ imageFile' = NoFile
             /\ responseAudio' = 0
             /\ objectURLs' = <<>>
             /\ loading' = FALSE)

\* C15: stopRecording called while no recording is in progress (isRecording
\* false: before any recording, after one was stopped, while permission is
\* being requested) changes nothing.
StopWhenNotRecordingIsNoOp ==
    [][(~isRecording /\ stopRecording) => UNCHANGED vars]_vars

StoppedRecorderStillReferenced ==
    /\ ~isRecording
    /\ mediaRecorderRef # 0
    /\ sessions[mediaRecorderRef].state = "inactive"
    /\ \E s \in Session : sessions[s].state = "requesting"

\* C12: a speech-synthesis call that fails logs and does nothing else: the
\* error message, the loading flag, the staged inputs and the displayed
\* transcription, analysis and response audio are as before, and nothing
\* is played.
FailedSpeechIsSilent ==
    [][\A q \in speechInflight : \A rep \in SpeechReplies :
          (SpeechEndsInCatch(rep) /\ SpeechSettles(q, rep)) =>
              /\ error' = error
              /\ loading' = loading
              /\ audioFile' = audioFile
              /\ imageFile' = imageFile
              /\ transcription' = transcription
              /\ imageAnalysis' = imageAnalysis
              /\ responseAudio' = responseAudio
              /\ inflight' = inflight
              /\ audioPlays' = audioPlays
              /\ objectURLs' = objectURLs
              /\ consoleErrors' = consoleErrors + 1]_vars

SpeechFailedDuringSubmit ==
    /\ consoleErrors >= 1
    /\ loading
    /\ inflight # {}

\* C16: every submit that enters the submitting state eventually leaves it,
\* however the endpoint call settles.
SubmittingEventuallyEnds ==
    loading ~> (~loading /\ RecordButtonEnabled /\ FileInputEnabled)

SubmitLeftAfterFailure ==
    /\ requestCount >= 1
    /\ ~loading
    /\ inflight = {}
    /\ error = FallbackMessage

====
